---- MODULE Spec2Model ----
(***************************************************************************)
(* A model of gorng: the SHA-1 compression engine (sha1/hash.go), its      *)
(* digest type, the digest-cycling generator ShaRing (random.go), the      *)
(* channel source of package safe and the content index of cmd/dedup.      *)
(*                                                                         *)
(* A uint32 is kept as a pair <<hi, lo>> of 16-bit halves, so that every   *)
(* operation keeps its 32-bit width.  Go arrays and slices are sequences;  *)
(* Go index i is sequence index i + 1.                                     *)
(***************************************************************************)
EXTENDS Integers, Sequences, FiniteSets, TLC

(***************************************************************************)
(* uint32 arithmetic, as the Go operators compute it.                      *)
(***************************************************************************)
\* 2^n for 0 <= n <= 16
Pow2(n) == <<1, 2, 4, 8, 16, 32, 64, 128, 256, 512, 1024, 2048, 4096, 8192,
             16384, 32768, 65536>>[n + 1]

HALF == Pow2(16)

\* a ^ b on n-bit operands (n a power of two), halving the operands down to bits
RECURSIVE BitXor(_, _, _)
BitXor(a, b, n) ==
    IF a = 0 THEN b
    ELSE IF b = 0 THEN a
    ELSE IF n = 1 THEN (a + b) % 2
    ELSE LET h == n \div 2
             p == Pow2(h)
         IN  BitXor(a \div p, b \div p, h) * p + BitXor(a % p, b % p, h)

\* a & b on n-bit operands (n a power of two)
RECURSIVE BitAnd(_, _, _)
BitAnd(a, b, n) ==
    IF a = 0 \/ b = 0 THEN 0
    ELSE IF n = 1 THEN a * b
    ELSE LET h == n \div 2
             p == Pow2(h)
         IN  BitAnd(a \div p, b \div p, h) * p + BitAnd(a % p, b % p, h)

\* The two operations on bytes, tabulated, and on 16-bit halves.
XorTab == [a \in 0..255 |-> [b \in 0..255 |-> BitXor(a, b, 8)]]
AndTab == [a \in 0..255 |-> [b \in 0..255 |-> BitAnd(a, b, 8)]]
Xor16(a, b) == XorTab[a \div 256][b \div 256] * 256 + XorTab[a % 256][b % 256]
And16(a, b) == AndTab[a \div 256][b \div 256] * 256 + AndTab[a % 256][b % 256]

\* x ^ y
Xor32(x, y) == <<Xor16(x[1], y[1]), Xor16(x[2], y[2])>>
\* x & y
And32(x, y) == <<And16(x[1], y[1]), And16(x[2], y[2])>>
\* x | y
Or32(x, y) == <<x[1] + y[1] - And16(x[1], y[1]),
                x[2] + y[2] - And16(x[2], y[2])>>
\* x + y, truncated to 32 bits
Add32(x, y) ==
    LET lo == x[2] + y[2]
    IN  <<(x[1] + y[1] + (lo \div HALF)) % HALF, lo % HALF>>
\* x << n, truncated to 32 bits (0 <= n <= 32)
Shl32(x, n) ==
    IF n = 0 THEN x
    ELSE IF n < 16 THEN <<(x[1] % Pow2(16 - n)) * Pow2(n) + (x[2] \div Pow2(16 - n)),
                          (x[2] % Pow2(16 - n)) * Pow2(n)>>
    ELSE IF n < 32 THEN <<(x[2] % Pow2(32 - n)) * Pow2(n - 16), 0>>
    ELSE <<0, 0>>
\* x >> n (0 <= n <= 32)
Shr32(x, n) ==
    IF n = 0 THEN x
    ELSE IF n < 16 THEN <<x[1] \div Pow2(n),
                          (x[1] % Pow2(n)) * Pow2(16 - n) + (x[2] \div Pow2(n))>>
    ELSE IF n < 32 THEN <<0, x[1] \div Pow2(n - 16)>>
    ELSE <<0, 0>>
\* uint32(b) of a byte b
U32(b) == <<0, b>>

ZERO32 == <<0, 0>>

(***************************************************************************)
(* sha1/hash.go: constants.                                                *)
(***************************************************************************)
BLOCK_BYTES == 64
BLOCK_INTS == 16
BLOCKITEM_MASK == 3
DIGEST_BYTES == 20
DIGEST_INTS == 5
SCRATCH_INTS == 80

K_0 == <<\H5A82, \H7999>>
K_1 == <<\H6ED9, \HEBA1>>
K_2 == <<\H8F1B, \HBCDC>>
K_3 == <<\HCA62, \HC1D6>>

\* Convenience function, rotates the bits of an unsigned 32-bit integer.
rotateL(value, bits) == Or32(Shl32(value, bits), Shr32(value, 32 - bits))

\* clear(state.block[:])
ClearBlock ==
    <<ZERO32, ZERO32, ZERO32, ZERO32, ZERO32, ZERO32, ZERO32, ZERO32,
      ZERO32, ZERO32, ZERO32, ZERO32, ZERO32, ZERO32, ZERO32, ZERO32>>

\* Reset as in an earlier draft of hash.go, which assigns the five constants to
\* slot 0 of the chain value, one after the other (a mutant of Reset).
ResetSlotZero(state) ==
    [length |-> 0,
     block |-> ClearBlock,
     chainValue |-> [state.chainValue EXCEPT ![1] = <<\HC3D2, \HE1F0>>]]

\* The hasher struct: block [16]uint32, length uint64, chainValue [5]uint32.
\* Reset the length, the contents of the block and the initial digest value.
Reset(state) ==
    [length |-> 0,
     block |-> ClearBlock,
     chainValue |-> << <<\H6745, \H2301>>, <<\HEFCD, \HAB89>>, <<\H98BA, \HDCFE>>,
                       <<\H1032, \H5476>>, <<\HC3D2, \HE1F0>> >>]

\* The zero value of the struct, new(hasher).
ZeroHasher ==
    [length |-> 0, block |-> ClearBlock, chainValue |-> <<ZERO32, ZERO32, ZERO32, ZERO32, ZERO32>>]

\* Constructor for a new Hasher instance.
New == Reset(ZeroHasher)

(***************************************************************************)
(* sha1/hash.go: copyBytes.                                                *)
(*                                                                         *)
(* A Go loop is modelled by an operator that runs a number of its          *)
(* iterations on the loop's variables.  The iterations are evaluated in    *)
(* two halves, the second on the value of the first (bound through a       *)
(* one-element set, which the model checker evaluates before it goes on),  *)
(* so that the depth of the evaluation stays logarithmic.                  *)
(***************************************************************************)
\* One iteration of the loop of copyBytes on s = <<msgi, length, blocki,
\* value, block>>: the next message byte is shifted into value, which is
\* stored when length reaches a uint32 boundary.
copyBytesIter(message, s) ==
    LET value == Add32(Shl32(s[4], 8), U32(message[s[1] + 1]))
        length == s[2] + 1
    IN  IF length % (BLOCKITEM_MASK + 1) = 0
        THEN <<s[1] + 1, length, s[3] + 1, ZERO32, [s[5] EXCEPT ![s[3] + 1] = value]>>
        ELSE <<s[1] + 1, length, s[3], value, s[5]>>

\* n iterations of the loop of copyBytes from s.
RECURSIVE copyBytesLoop(_, _, _)
copyBytesLoop(message, s, n) ==
    IF n = 0 THEN s
    ELSE IF n = 1 THEN copyBytesIter(message, s)
    ELSE CHOOSE r \in {copyBytesLoop(message, u, n - (n \div 2)) :
                         u \in {copyBytesLoop(message, s, n \div 2)}} : TRUE

\* copyBytes starting every call from an empty value instead of the word the
\* block holds at the cursor (a mutant of copyBytes).
copyBytesFromZero(state, message) ==
    LET blocki == (state.length % BLOCK_BYTES) \div 4
        r == copyBytesLoop(message,
                           <<0, state.length, blocki, ZERO32, state.block>>,
                           Len(message))
    IN  [state EXCEPT
           !.block = IF r[2] % (BLOCKITEM_MASK + 1) # 0
                     THEN [r[5] EXCEPT ![r[3] + 1] = r[4]]
                     ELSE r[5],
           !.length = r[2]]

\* Copies the bytes in `message` into a sequence of integers (big-endian). The
\* message slice should have no more bytes than can fit in the current block.
copyBytes(state, message) ==
    LET blocki == (state.length % BLOCK_BYTES) \div 4
        r == copyBytesLoop(message,
                           <<0, state.length, blocki, state.block[blocki + 1], state.block>>,
                           Len(message))
    IN  [state EXCEPT
           \* Write partial value if the loop didn't end at a uint32 boundary.
           !.block = IF r[2] % (BLOCKITEM_MASK + 1) # 0
                     THEN [r[5] EXCEPT ![r[3] + 1] = r[4]]
                     ELSE r[5],
           !.length = r[2]]

(***************************************************************************)
(* sha1/hash.go: mixBits.                                                  *)
(***************************************************************************)
\* The schedule's step rotating by one bit from index 32 onwards too, where
\* the aligned recurrence needs two (a mutant of ScheduleIter).
ScheduleIterRotatesOnce(scratch) ==
    LET i == Len(scratch)
    IN  IF i < 32
        THEN Append(scratch,
                 rotateL(Xor32(Xor32(scratch[i - 3 + 1], scratch[i - 8 + 1]),
                               Xor32(scratch[i - 14 + 1], scratch[i - 16 + 1])), 1))
        ELSE Append(scratch,
                 rotateL(Xor32(Xor32(scratch[i - 6 + 1], scratch[i - 16 + 1]),
                               Xor32(scratch[i - 28 + 1], scratch[i - 32 + 1])), 1))

\* One more word of the message schedule: index i = Len(scratch) is the
\* ROTL1 recurrence for i < 32, and from index 32 onwards the 64-bit aligned
\* alternative with ROTL2.
ScheduleIter(scratch) ==
    LET i == Len(scratch)
    IN  IF i < 32
        THEN Append(scratch,
                 rotateL(Xor32(Xor32(scratch[i - 3 + 1], scratch[i - 8 + 1]),
                               Xor32(scratch[i - 14 + 1], scratch[i - 16 + 1])), 1))
        ELSE Append(scratch,
                 rotateL(Xor32(Xor32(scratch[i - 6 + 1], scratch[i - 16 + 1]),
                               Xor32(scratch[i - 28 + 1], scratch[i - 32 + 1])), 2))

\* n more words of the message schedule.
RECURSIVE ScheduleLoop(_, _)
ScheduleLoop(scratch, n) ==
    IF n = 0 THEN scratch
    ELSE IF n = 1 THEN ScheduleIter(scratch)
    ELSE CHOOSE r \in {ScheduleLoop(u, n - (n \div 2)) :
                         u \in {ScheduleLoop(scratch, n \div 2)}} : TRUE

\* Prepare the message schedule, expanded from the words of the current block.
Schedule(block) == ScheduleLoop(block, SCRATCH_INTS - BLOCK_INTS)

\* The bit functions of the four passes, as the code writes them.
\* Choice: d ^ (b & (c ^ d))
Choice(b, c, d) == Xor32(d, And32(b, Xor32(c, d)))
\* Parity: b ^ c ^ d
Parity(b, c, d) == Xor32(Xor32(b, c), d)
\* Majority: (b & c) | (d & (b | c))
Majority(b, c, d) == Or32(And32(b, c), And32(d, Or32(b, c)))

\* The body shared by the four loops; v is <<a, b, c, d, e>>, f the value of
\* the pass's bit function, k its constant, w the schedule word.
Round(v, f, k, w) ==
    LET tmp == Add32(Add32(Add32(Add32(rotateL(v[1], 5), f), v[5]), k), w)
    IN  <<tmp, v[1], rotateL(v[2], 30), v[3], v[4]>>

\* Iteration i of the four passes over the 80-integer buffer.
PassIter(v, scratch, i) ==
    IF i < 20 THEN Round(v, Choice(v[2], v[3], v[4]), K_0, scratch[i + 1])
    ELSE IF i < 40 THEN Round(v, Parity(v[2], v[3], v[4]), K_1, scratch[i + 1])
    ELSE IF i < 60 THEN Round(v, Majority(v[2], v[3], v[4]), K_2, scratch[i + 1])
    ELSE Round(v, Parity(v[2], v[3], v[4]), K_3, scratch[i + 1])

\* Iterations i .. i + n - 1 of the four passes.
RECURSIVE Passes(_, _, _, _)
Passes(v, scratch, i, n) ==
    IF n = 0 THEN v
    ELSE IF n = 1 THEN PassIter(v, scratch, i)
    ELSE CHOOSE r \in {Passes(u, scratch, i + (n \div 2), n - (n \div 2)) :
                         u \in {Passes(v, scratch, i, n \div 2)}} : TRUE

\* Applies the SHA-1 hashing algorithm to the contents of the current block:
\* the chain value is updated in place and the block is cleared.
mixBits(state) ==
    CHOOSE r \in
      {[state EXCEPT
          !.chainValue = <<Add32(state.chainValue[1], v[1]),
                           Add32(state.chainValue[2], v[2]),
                           Add32(state.chainValue[3], v[3]),
                           Add32(state.chainValue[4], v[4]),
                           Add32(state.chainValue[5], v[5])>>,
          !.block = ClearBlock] :
       v \in {Passes(state.chainValue, scratch, 0, SCRATCH_INTS) :
              scratch \in {Schedule(state.block)}}} : TRUE

(***************************************************************************)
(* sha1/hash.go: Write, Hash, write1bit, newDigest, HashBytes.             *)
(***************************************************************************)
\* uint32(n) of a non-negative integer below 2^31
ToU32(n) == <<n \div HALF, n % HALF>>

\* message[from:to]
Slice(message, from, to) == SubSeq(message, from + 1, to)

\* The loop of Write: "repeatedly process while there are more message bytes".
RECURSIVE WriteLoop(_, _, _)
WriteLoop(state, message, index) ==
    IF index < Len(message)
    THEN LET next == IF index + BLOCK_BYTES > Len(message)
                     THEN Len(message) ELSE index + BLOCK_BYTES
             copied == copyBytes(state, Slice(message, index, next))
         IN  WriteLoop(IF next - index = BLOCK_BYTES THEN mixBits(copied) ELSE copied,
                       message, next)
    ELSE state

\* Write returning the number of bytes it copied into the engine instead of
\* len(message) (a mutant of Write).
WriteCountsCopied(state, message) ==
    LET msglen == Len(message)
        offset == state.length % BLOCK_BYTES
    IN  IF msglen = 0 THEN [state |-> state, n |-> 0, err |-> "nil"]
        ELSE IF msglen + offset < BLOCK_BYTES
        THEN [state |-> copyBytes(state, message), n |-> msglen, err |-> "nil"]
        ELSE LET index == 64 - offset
                 filled == mixBits(copyBytes(state, Slice(message, 0, index)))
                 after == WriteLoop(filled, message, index + offset)
             IN  [state |-> after, n |-> after.length - state.length, err |-> "nil"]

\* Hash the contents of message but leave the buffer ready for additional bytes.
\* The result is the engine after the call and the pair (n, err) it returns.
Write(state, message) ==
    LET msglen == Len(message)
        offset == state.length % BLOCK_BYTES
    IN  IF msglen = 0 THEN [state |-> state, n |-> 0, err |-> "nil"]
        ELSE IF msglen + offset < BLOCK_BYTES
        THEN \* Write entire message, it will fit within the current block.
             [state |-> copyBytes(state, message), n |-> msglen, err |-> "nil"]
        ELSE \* Fill the current buffer and then process the rest.
             LET index == 64 - offset
                 filled == mixBits(copyBytes(state, Slice(message, 0, index)))
             IN  [state |-> WriteLoop(filled, message, index + offset),
                  n |-> msglen, err |-> "nil"]

\* write1bit setting the bit in a partial word without first shifting the
\* word's bytes up to their big-endian places (a mutant of write1bit).
write1bitUnshifted(block, blockpos) ==
    LET blocki == blockpos \div 4
        pos == blockpos % (BLOCKITEM_MASK + 1)
        bit == IF pos = 0 THEN <<\H8000, 0>> ELSE IF pos = 1 THEN <<\H0080, 0>>
               ELSE IF pos = 2 THEN <<0, \H8000>> ELSE <<0, \H0080>>
    IN  [block EXCEPT ![blocki + 1] = Or32(block[blocki + 1], bit)]

\* Writes a single `1` bit after the message contents.
write1bit(block, blockpos) ==
    LET blocki == blockpos \div 4
        pos == blockpos % (BLOCKITEM_MASK + 1)
    IN  IF pos = 0 THEN [block EXCEPT ![blocki + 1] = <<\H8000, 0>>]
        ELSE IF pos = 1
        THEN [block EXCEPT ![blocki + 1] = Or32(Shl32(block[blocki + 1], 24), <<\H0080, 0>>)]
        ELSE IF pos = 2
        THEN [block EXCEPT ![blocki + 1] = Or32(Shl32(block[blocki + 1], 16), <<0, \H8000>>)]
        ELSE [block EXCEPT ![blocki + 1] = Or32(Shl32(block[blocki + 1], 8), <<0, \H0080>>)]

\* binary.BigEndian.PutUint32: the four bytes of a uint32, most significant first
PutUint32(w) == <<w[1] \div 256, w[1] % 256, w[2] \div 256, w[2] % 256>>

\* Constructs a Digest result as byte array, from the five integers of the hash.
newDigest(ints) ==
    PutUint32(ints[1]) \o PutUint32(ints[2]) \o PutUint32(ints[3])
      \o PutUint32(ints[4]) \o PutUint32(ints[5])

\* HashPadded leaving the length as it is when it stores the length words,
\* instead of rounding it up to the end of the block (a mutant of HashPadded).
HashPaddedKeepsLength(state) ==
    LET length == state.length
        marked == [state EXCEPT !.block = write1bit(state.block, length % BLOCK_BYTES)]
    IN  CHOOSE r \in
          {[spilled EXCEPT
              !.block = [spilled.block EXCEPT
                           ![BLOCK_INTS - 2 + 1] = ToU32(length \div 536870912),
                           ![BLOCK_INTS - 1 + 1] = Shl32(ToU32(length % 536870912), 3)]] :
           spilled \in
             {IF length % BLOCK_BYTES >= 56
              THEN mixBits([marked EXCEPT
                              !.length = marked.length + (64 - (length % BLOCK_BYTES))])
              ELSE marked}} : TRUE

\* HashPadded with the test for a too full block off by one, length&63 > 56
\* (a mutant of HashPadded).
HashPaddedOffByOne(state) ==
    LET length == state.length
        marked == [state EXCEPT !.block = write1bit(state.block, length % BLOCK_BYTES)]
        spilled == IF length % BLOCK_BYTES > 56
                   THEN mixBits([marked EXCEPT
                                   !.length = marked.length + (64 - (length % BLOCK_BYTES))])
                   ELSE marked
    IN  [spilled EXCEPT
           !.block = [spilled.block EXCEPT
                        ![BLOCK_INTS - 2 + 1] = ToU32(length \div 536870912),
                        ![BLOCK_INTS - 1 + 1] = Shl32(ToU32(length % 536870912), 3)],
           !.length = spilled.length + (64 - (spilled.length % BLOCK_BYTES))]

\* Hash, up to the point where both length words are stored and the last
\* block is about to be mixed: the engine with its padded final block.
HashPadded(state) ==
    LET length == state.length
        marked == [state EXCEPT !.block = write1bit(state.block, length % BLOCK_BYTES)]
        \* current block is too full for length value, mix bits and use next block.
    IN  CHOOSE r \in
          {[spilled EXCEPT
              !.block = [spilled.block EXCEPT
                           ![BLOCK_INTS - 2 + 1] = ToU32(length \div 536870912),
                           ![BLOCK_INTS - 1 + 1] = Shl32(ToU32(length % 536870912), 3)],
              !.length = spilled.length + (64 - (spilled.length % BLOCK_BYTES))] :
           spilled \in
             {IF length % BLOCK_BYTES >= 56
              THEN mixBits([marked EXCEPT
                              !.length = marked.length + (64 - (length % BLOCK_BYTES))])
              ELSE marked}} : TRUE

\* Hash without its call of Reset (a mutant of Hash).
HashWithoutReset(state) ==
    LET mixed == mixBits(HashPadded(state))
    IN  [state |-> mixed, digest |-> newDigest(mixed.chainValue)]

\* Performs the final post-processing and returns the message hash as a Digest.
\* The result is the engine after the call (reset) and the digest's bytes.
Hash(state) ==
    CHOOSE r \in {[state |-> Reset(mixed), digest |-> newDigest(mixed.chainValue)] :
                  mixed \in {mixBits(HashPadded(state))}} : TRUE

\* The blocks Hash() hands to mixBits, in order: the block with the 1 bit
\* first when it is too full for the length, and last the block that carries
\* the length.
HashMixes(state) ==
    IF state.length % BLOCK_BYTES >= 56
    THEN <<write1bit(state.block, state.length % BLOCK_BYTES), HashPadded(state).block>>
    ELSE <<HashPadded(state).block>>

\* The check at the head of mixBits in the earlier version of hash.go:
\* "panics if the block hasn't been filled to 64-bytes before calling".
mixBitsPanics(state) == state.length % BLOCK_BYTES > 0

\* The engines the loop of Write hands to mixBits, in order.
RECURSIVE WriteLoopMixes(_, _, _)
WriteLoopMixes(state, message, index) ==
    IF index < Len(message)
    THEN LET next == IF index + BLOCK_BYTES > Len(message)
                     THEN Len(message) ELSE index + BLOCK_BYTES
         IN  CHOOSE r \in
               {IF next - index = BLOCK_BYTES
                THEN <<copied>> \o WriteLoopMixes(mixBits(copied), message, next)
                ELSE WriteLoopMixes(copied, message, next) :
                copied \in {copyBytes(state, Slice(message, index, next))}} : TRUE
    ELSE <<>>

\* The engines Write hands to mixBits, in order.
WriteMixes(state, message) ==
    LET msglen == Len(message)
        offset == state.length % BLOCK_BYTES
    IN  IF msglen = 0 \/ msglen + offset < BLOCK_BYTES THEN <<>>
        ELSE CHOOSE r \in
               {<<filled>> \o WriteLoopMixes(mixBits(filled), message, (64 - offset) + offset) :
                filled \in {copyBytes(state, Slice(message, 0, 64 - offset))}} : TRUE

\* The engines Hash() hands to mixBits, in order.
HashMixStates(state) ==
    LET length == state.length
        marked == [state EXCEPT !.block = write1bit(state.block, length % BLOCK_BYTES)]
    IN  (IF length % BLOCK_BYTES >= 56
         THEN <<[marked EXCEPT !.length = marked.length + (64 - (length % BLOCK_BYTES))]>>
         ELSE <<>>) \o <<HashPadded(state)>>

\* x >> n on a uint64 (0 <= n < 64), limb by limb of 16 bits
Shr64(x, n) ==
    LET limbs == <<x[1][1], x[1][2], x[2][1], x[2][2]>>
        q == n \div 16
        r == n % 16
        Limb(j) == IF j \in 1..4 THEN limbs[j] ELSE 0
        Out(i) == (Limb(i - q) \div Pow2(r)) + (Limb(i - q - 1) % Pow2(r)) * Pow2(16 - r)
    IN  << <<Out(1), Out(2)>>, <<Out(3), Out(4)>> >>
\* x & y on uint64
And64(x, y) == <<And32(x[1], y[1]), And32(x[2], y[2])>>

\* uint32(length >> 32): the high length word with the shift taken as 32
\* instead of 29 (a mutant of LengthHigh).
LengthHighBy32(length) == Shr64(length, 32)[2]

\* The word Hash() stores in block[BLOCK_INTS-2]: uint32(length >> 29); the
\* conversion to uint32 keeps the low 32 bits.
LengthHigh(length) == Shr64(length, 29)[2]
\* The word Hash() stores in block[BLOCK_INTS-1]:
\* uint32(length&0x1FFFFFFF) << 3.
LengthLow(length) ==
    Shl32(And64(length, <<ZERO32, <<\H1FFF, \HFFFF>>>>)[2], 3)

\* Simple interface for hashing the provided byte-slice into a Digest.
HashBytes(input) ==
    LET w == Write(New, input)
    IN  IF w.err # "nil" THEN [digest |-> <<>>, err |-> w.err]
        ELSE [digest |-> Hash(w.state).digest, err |-> "nil"]

\* Simple interface for hashing the provided string into a Digest;
\* []byte(input) of a string is its bytes.
HashString(input) == HashBytes(input)

(***************************************************************************)
(* random.go: ShaRing.  A uint64 is a pair <<high, low>> of uint32.        *)
(***************************************************************************)
\* binary.BigEndian.Uint32(b): the first four bytes of b
BigEndianUint32(b) == <<b[1] * 256 + b[2], b[3] * 256 + b[4]>>
\* binary.BigEndian.Uint64(b): the first eight bytes of b
BigEndianUint64(b) == <<BigEndianUint32(b), BigEndianUint32(SubSeq(b, 5, 8))>>
\* the eight bytes binary.BigEndian.PutUint64 stores for v
PutUint64(v) == PutUint32(v[1]) \o PutUint32(v[2])
\* x + y, truncated to 64 bits
Add64(x, y) ==
    LET low == Add32(x[2], y[2])
        carry == IF ((x[2][2] + y[2][2]) \div HALF) + x[2][1] + y[2][1] >= HALF
                 THEN <<0, 1>> ELSE ZERO32
    IN  <<Add32(Add32(x[1], y[1]), carry), low>>

\* The digest field of a ShaRing that holds no digest (nil).
NilDigest == <<>>

\* New leaving the cursor at 4 instead of 0 (a mutant of NewShaRing).
NewShaRingOffsetFour(sourceIsNil, source) ==
    [rng |-> IF sourceIsNil THEN New ELSE source, offset |-> 4, digest |-> NilDigest]

\* Creates a new random number generator using the provided Hasher source.
\* If a nil value is passed for the source then the default hasher is used.
NewShaRing(sourceIsNil, source) ==
    [rng |-> IF sourceIsNil THEN New ELSE source, offset |-> 0, digest |-> NilDigest]

\* binary.BigEndian.PutUint64(bytes[at:], v) on a slice bytes: the slice
\* expression panics when at is beyond the slice's length, and PutUint64 when
\* fewer than eight bytes are left.
PutUint64At(bytes, at, v) ==
    IF at > Len(bytes) \/ Len(bytes) - at < 8
    THEN [panic |-> TRUE, bytes |-> bytes]
    ELSE [panic |-> FALSE,
          bytes |-> [i \in 1..Len(bytes) |->
                       IF i > at /\ i <= at + 8 THEN PutUint64(v)[i - at] ELSE bytes[i]]]

\* The loop of NewSourceSeeded over more, from index i.
RECURSIVE SeedLoop(_, _, _)
SeedLoop(bytes, more, i) ==
    IF i >= Len(more) THEN [panic |-> FALSE, bytes |-> bytes]
    ELSE LET put == PutUint64At(bytes, 8 * (i + 1), more[i + 1])
         IN  IF put.panic THEN put ELSE SeedLoop(put.bytes, more, i + 1)

\* NewSourceSeeded(seed, more...): the generator it returns and the bytes it
\* wrote to the engine, or the panic it ends in.
NewSourceSeeded(seed, more) ==
    LET size == 2 + (2 * Len(more))
        first == PutUint64At([i \in 1..size |-> 0], 0, seed)
        filled == IF first.panic THEN first ELSE SeedLoop(first.bytes, more, 0)
    IN  IF filled.panic
        THEN [panic |-> TRUE, written |-> <<>>, ring |-> NewShaRing(TRUE, New)]
        ELSE [panic |-> FALSE, written |-> filled.bytes,
              ring |-> [rng |-> Write(New, filled.bytes).state, offset |-> 0,
                        digest |-> NilDigest]]

\* Uint64(): the generator after the call and the value returned; panic when
\* the call reads the bytes of a nil digest.  hashed tells whether the call
\* invoked Hash(), and old and new are the byte positions the returned value
\* took from the digest held before the call and from the one Hash() returned.
Uint64(rng) ==
    IF rng.offset = 0
    THEN LET h == Hash(rng.rng)
         IN  [ring |-> [rng EXCEPT !.rng = h.state, !.digest = h.digest],
              next |-> BigEndianUint64(h.digest), panic |-> FALSE,
              hashed |-> TRUE, old |-> {}, new |-> 0..7]
    ELSE IF rng.offset \in {4, 8, 12, 16} /\ rng.digest = NilDigest
    THEN [ring |-> rng, next |-> <<ZERO32, ZERO32>>, panic |-> TRUE,
          hashed |-> FALSE, old |-> {}, new |-> {}]
    ELSE IF rng.offset \in {4, 8}
    THEN [ring |-> [rng EXCEPT !.offset = rng.offset + 8],
          next |-> BigEndianUint64(rng.digest), panic |-> FALSE,
          hashed |-> FALSE, old |-> 0..7, new |-> {}]
    ELSE IF rng.offset = 12
    THEN [ring |-> [rng EXCEPT !.offset = 0],
          next |-> BigEndianUint64(rng.digest), panic |-> FALSE,
          hashed |-> FALSE, old |-> 0..7, new |-> {}]
    ELSE IF rng.offset = 16
    THEN LET h == Hash(rng.rng)
             high == <<BigEndianUint32(SubSeq(rng.digest, 17, 20)), ZERO32>>
         IN  [ring |-> [rng EXCEPT !.rng = h.state, !.digest = h.digest, !.offset = 4],
              next |-> Add64(high, <<ZERO32, BigEndianUint32(h.digest)>>),
              panic |-> FALSE, hashed |-> TRUE, old |-> 16..19, new |-> 0..3]
    ELSE \* no case of the switch matches
         [ring |-> rng, next |-> <<ZERO32, ZERO32>>, panic |-> FALSE,
          hashed |-> FALSE, old |-> {}, new |-> {}]

(***************************************************************************)
(* package safe: the extended source's Bytes.  The source is a ShaRing.    *)
(***************************************************************************)
\* the largest uint8, the type of the bit widths
MaxUint8 == 255
\* uint8(n) of a non-negative integer
ToUint8(n) == n % (MaxUint8 + 1)

\* byte(next & 0xFF)
LowByte(next) == next[2][2] % 256
\* byte(next & mask) with mask := uint64(1<<bits) - 1, for bits < 8
LowBits(next, bits) == next[2][2] % Pow2(bits)
\* next >> 8 on a uint64
Shr64By8(next) ==
    << <<next[1][1] \div 256, (next[1][2] \div 256) + (next[1][1] % 256) * 256>>,
       <<(next[2][1] \div 256) + (next[1][2] % 256) * 256,
         (next[2][2] \div 256) + (next[2][1] % 256) * 256>> >>

\* make([]byte, length, capacity): a slice of length zero bytes
MakeBytes(length, capacity) == [i \in 1..length |-> 0]

\* bytes[index] = value; out of range when index is not below len(bytes)
StoreByte(s, index, value) ==
    IF index >= Len(s.bytes)
    THEN [s EXCEPT !.panic = TRUE, !.stores = Append(s.stores, index)]
    ELSE [s EXCEPT !.bytes[index + 1] = value, !.stores = Append(s.stores, index)]

\* The inner loop of Bytes, for i := s.i; i < 8; i++, over the word s.next.
RECURSIVE BytesInner(_)
BytesInner(s) ==
    IF s.i >= 8 THEN s
    ELSE IF s.bits < 8
    THEN [StoreByte(s, s.offset + s.i, LowBits(s.next, s.bits)) EXCEPT !.bits = 0]
    ELSE LET stored == StoreByte(s, s.offset + s.i, LowByte(s.next))
         IN  IF stored.panic THEN stored
             ELSE BytesInner([stored EXCEPT !.next = Shr64By8(s.next),
                                            !.bits = s.bits \div 8,
                                            !.i = s.i + 1])

\* One turn of the outer loop of Bytes, with the word drawn for it.
BytesTurn(s, drawn) ==
    IF drawn.panic THEN [s EXCEPT !.panic = TRUE]
    ELSE BytesInner([s EXCEPT !.source = drawn.ring,
                              !.next = drawn.next,
                              !.words = Append(s.words, drawn.next),
                              !.i = 0])

\* The outer loop of Bytes, for bits > 0: one word is drawn per turn.
RECURSIVE BytesOuter(_)
BytesOuter(s) ==
    IF s.bits > 0 /\ ~s.panic
    THEN BytesOuter(CHOOSE t \in {BytesTurn(s, drawn) : drawn \in {Uint64(s.source)}} : TRUE)
    ELSE s

\* Bytes that draws a word from the source before it looks at bits (a mutant
\* of Bytes).
BytesDrawsFirst(source, bits) ==
    CHOOSE r \in
      {[source |-> drawn.ring, result |-> <<>>, panic |-> drawn.panic, made |-> 0,
        words |-> <<drawn.next>>, stores |-> <<>>] :
       drawn \in {Uint64(source)}} : TRUE

\* extendedSource.Bytes(bits): the source after the call, the slice returned
\* or the panic the call ends in; made is the length of the buffer when it
\* was allocated, words are the values drawn and stores the indexes stored to.
Bytes(source, bits) ==
    IF bits = 0
    THEN [source |-> source, result |-> <<>>, panic |-> FALSE, made |-> 0,
          words |-> <<>>, stores |-> <<>>]
    ELSE LET countBytes == (bits \div 8) + (IF bits % 8 > 0 THEN 1 ELSE 0)
         IN  CHOOSE r \in
               {[source |-> done.source,
                 result |-> IF done.panic THEN <<>> ELSE done.bytes,
                 panic |-> done.panic, made |-> Len(MakeBytes(0, countBytes)),
                 words |-> done.words, stores |-> done.stores] :
                done \in {BytesOuter([source |-> source, bits |-> bits, offset |-> 0,
                                      next |-> <<ZERO32, ZERO32>>, i |-> 0,
                                      bytes |-> MakeBytes(0, countBytes),
                                      panic |-> FALSE, words |-> <<>>,
                                      stores |-> <<>>])}} : TRUE

(***************************************************************************)
(* cmd/dedup: the content index.  A path is its directory ("" for a file   *)
(* of the directory the walk starts in) and its file name.                 *)
(***************************************************************************)
\* base64.StdEncoding.EncodeToString(bytes): three bytes give four 6-bit
\* digits, a remainder of one or two bytes gives two or three digits and
\* padding.  A character is its index in the alphabet, the padding '=' is 64.
RECURSIVE BytesToBase64(_)
BytesToBase64(bytes) ==
    IF Len(bytes) = 0 THEN <<>>
    ELSE IF Len(bytes) = 1
    THEN <<bytes[1] \div 4, (bytes[1] % 4) * 16, 64, 64>>
    ELSE IF Len(bytes) = 2
    THEN <<bytes[1] \div 4, (bytes[1] % 4) * 16 + (bytes[2] \div 16),
           (bytes[2] % 16) * 4, 64>>
    ELSE <<bytes[1] \div 4, (bytes[1] % 4) * 16 + (bytes[2] \div 16),
           (bytes[2] % 16) * 4 + (bytes[3] \div 64), bytes[3] % 64>>
           \o BytesToBase64(SubSeq(bytes, 4, Len(bytes)))

\* filepath.Base(path): the last element of the path
Base(path) == [dir |-> "", name |-> path.name]

\* Compute the signature of the contents found at path and store/append to
\* the entry in the index.  The result is the index, the files and the
\* signatures sent to the output after the call, and what the call did.
\* os.Rename fails, and addToIndex ignores that, when the file to move does
\* not exist or the directory ./saved does not exist.
addToIndex(index, files, savedDir, path) ==
    IF ~files[path].exists
    THEN [index |-> index, files |-> files, sent |-> <<>>, err |-> "ReadFile",
          sig64 |-> <<>>, existed |-> FALSE]
    ELSE CHOOSE r \in
      {IF \A s \in index.index : s.Content # sig64
       THEN \* First time this signature was found; record it and move on.
            [index |-> [index EXCEPT !.index = index.index \cup
                                        {[Content |-> sig64, Filepath |-> path]}],
             files |-> files, sent |-> <<>>, err |-> "nil", sig64 |-> sig64,
             existed |-> FALSE]
       ELSE \* Otherwise, this signature was found already -- record the duplicate.
            LET signature == CHOOSE s \in index.index : s.Content = sig64
                basepath == Base(signature.Filepath)
                savedpath == [dir |-> "saved", name |-> basepath.name]
            IN  IF signature.Filepath # basepath
                THEN [index |-> index,
                      files |-> IF index.delete /\ files[signature.Filepath].exists
                                                /\ savedDir
                                THEN [files EXCEPT
                                        ![savedpath] = files[signature.Filepath],
                                        ![signature.Filepath] =
                                            [exists |-> FALSE, data |-> <<>>]]
                                ELSE files,
                      sent |-> (IF index.delete
                                THEN <<[Content |-> sig64, Filepath |-> basepath]>>
                                ELSE <<>>)
                               \o <<signature, [Content |-> sig64, Filepath |-> path]>>,
                      err |-> "nil", sig64 |-> sig64, existed |-> TRUE]
                ELSE [index |-> index,
                      files |-> IF index.delete
                                THEN [files EXCEPT ![path] = [exists |-> FALSE, data |-> <<>>]]
                                ELSE files,
                      sent |-> <<[Content |-> sig64, Filepath |-> path]>>,
                      err |-> "nil", sig64 |-> sig64, existed |-> TRUE] :
       sig64 \in {BytesToBase64(HashBytes(files[path].data).digest)}} : TRUE

(***************************************************************************)
(* SHA-1 as FIPS PUB 180-4 states it, and as the comment of mixBits quotes *)
(* it: the message is padded as a whole, every block is expanded with the  *)
(* one recurrence W_t = ROTL1(W_(t-3) ^ W_(t-8) ^ W_(t-14) ^ W_(t-16)),    *)
(* and round t uses f_t and K_t of the table.  The digests the engine      *)
(* returns are compared with this.                                         *)
(***************************************************************************)
\* ^x
Not32(x) == <<HALF - 1 - x[1], HALF - 1 - x[2]>>

\* n zero bytes
Zeros(n) == [i \in 1..n |-> 0]

\* The padded message: a 1 bit, zero bits up to 448 mod 512, and the message
\* length in bits as a 64-bit big-endian integer (messages below 2^28 bytes).
RefPad(message) ==
    message \o <<128>> \o Zeros((119 - (Len(message) % 64)) % 64)
            \o <<0, 0, 0, 0>> \o PutUint32(ToU32(8 * Len(message)))

\* M_0 .. M_15 of block number b (from 0) of the padded message
RefBlock(padded, b) ==
    [t \in 1..16 |->
        <<padded[64 * b + 4 * (t - 1) + 1] * 256 + padded[64 * b + 4 * (t - 1) + 2],
          padded[64 * b + 4 * (t - 1) + 3] * 256 + padded[64 * b + 4 * (t - 1) + 4]>>]

\* W extended by W_t, t = Len(W)
RefScheduleIter(W) ==
    LET t == Len(W)
    IN  Append(W, rotateL(Xor32(Xor32(W[t - 3 + 1], W[t - 8 + 1]),
                                Xor32(W[t - 14 + 1], W[t - 16 + 1])), 1))

RECURSIVE RefScheduleLoop(_, _)
RefScheduleLoop(W, n) ==
    IF n = 0 THEN W
    ELSE IF n = 1 THEN RefScheduleIter(W)
    ELSE CHOOSE r \in {RefScheduleLoop(u, n - (n \div 2)) :
                         u \in {RefScheduleLoop(W, n \div 2)}} : TRUE

\* W_0 .. W_79
RefSchedule(M) == RefScheduleLoop(M, 64)

RefF(t, x, y, z) ==
    IF t <= 19 THEN Xor32(And32(x, y), And32(Not32(x), z))
    ELSE IF t <= 39 THEN Xor32(Xor32(x, y), z)
    ELSE IF t <= 59 THEN Xor32(Xor32(And32(x, y), And32(x, z)), And32(y, z))
    ELSE Xor32(Xor32(x, y), z)

RefK(t) ==
    IF t <= 19 THEN <<\H5A82, \H7999>>
    ELSE IF t <= 39 THEN <<\H6ED9, \HEBA1>>
    ELSE IF t <= 59 THEN <<\H8F1B, \HBCDC>>
    ELSE <<\HCA62, \HC1D6>>

\* Round t on v = <<a, b, c, d, e>>
RefRound(v, W, t) ==
    LET T == Add32(Add32(Add32(Add32(rotateL(v[1], 5), RefF(t, v[2], v[3], v[4])),
                               v[5]), RefK(t)), W[t + 1])
    IN  <<T, v[1], rotateL(v[2], 30), v[3], v[4]>>

RECURSIVE RefRounds(_, _, _, _)
RefRounds(v, W, t, n) ==
    IF n = 0 THEN v
    ELSE IF n = 1 THEN RefRound(v, W, t)
    ELSE CHOOSE r \in {RefRounds(u, W, t + (n \div 2), n - (n \div 2)) :
                         u \in {RefRounds(v, W, t, n \div 2)}} : TRUE

\* H(i) from H(i-1) and block M(i)
RefCompress(H, M) ==
    CHOOSE r \in
      {<<Add32(H[1], v[1]), Add32(H[2], v[2]), Add32(H[3], v[3]),
         Add32(H[4], v[4]), Add32(H[5], v[5])>> :
       v \in {RefRounds(H, W, 0, 80) : W \in {RefSchedule(M)}}} : TRUE

RECURSIVE RefBlocks(_, _, _)
RefBlocks(H, padded, b) ==
    IF 64 * b >= Len(padded) THEN H
    ELSE RefBlocks(RefCompress(H, RefBlock(padded, b)), padded, b + 1)

\* H(0)
RefInitial ==
    << <<\H6745, \H2301>>, <<\HEFCD, \HAB89>>, <<\H98BA, \HDCFE>>,
       <<\H1032, \H5476>>, <<\HC3D2, \HE1F0>> >>

\* The 20 bytes of the SHA-1 digest of message
RefSHA1(message) ==
    LET H == RefBlocks(RefInitial, RefPad(message), 0)
    IN  PutUint32(H[1]) \o PutUint32(H[2]) \o PutUint32(H[3])
          \o PutUint32(H[4]) \o PutUint32(H[5])

\* The digests Test_Hashing expects.
EmptyDigest ==
    <<\HDA, \H39, \HA3, \HEE, \H5E, \H6B, \H4B, \H0D, \H32, \H55,
      \HBF, \HEF, \H95, \H60, \H18, \H90, \HAF, \HD8, \H07, \H09>>
LazyDogDigest ==
    <<\H2F, \HD4, \HE1, \HC6, \H7A, \H2D, \H28, \HFC, \HED, \H84,
      \H9E, \HE1, \HBB, \H76, \HE7, \H39, \H1B, \H93, \HEB, \H12>>
LazyCogDigest ==
    <<\HDE, \H9F, \H2C, \H7F, \HD2, \H5E, \H1B, \H3A, \HFA, \HD3,
      \HE8, \H5A, \H0B, \HD1, \H7D, \H9B, \H10, \H0D, \HB4, \HB3>>
HelloWorldDigest ==
    <<\H2E, \HF7, \HBD, \HE6, \H08, \HCE, \H54, \H04, \HE9, \H7D,
      \H5F, \H04, \H2F, \H95, \HF8, \H9F, \H1C, \H23, \H28, \H71>>

(***************************************************************************)
(* The state of the model.                                                 *)
(*                                                                         *)
(*   state   the hasher a caller holds (block, length, chainValue)         *)
(*   chunks  the lengths of the messages passed to Write since the         *)
(*           engine's last reset, in call order                            *)
(*   uses    the number of Hash() calls the engine has completed           *)
(*   last    the last call: its operation, its argument, what it returned  *)
(*           and the engine before it                                      *)
(*   gens    the ShaRing generators, one record each:                      *)
(*             pc      "none", "engine" (a hasher the caller is seeding),  *)
(*                     "ready" (a ShaRing exists) or "panic"               *)
(*             ctor    the constructor called, args its uint64 arguments   *)
(*             ring    the ShaRing (rng, offset, digest)                   *)
(*             seed    the bytes written to the engine before the ShaRing  *)
(*                     was made, writes the number of Write calls          *)
(*             fed     the bytes written to the engine since its reset     *)
(*             out     the values returned by Uint64(), in order           *)
(*             reads   per call of Uint64(), the bytes <<d, i>> (byte i of  *)
(*                     the d-th digest computed) its value was made of     *)
(*             hashes  per Hash() the generator invoked, the bytes the     *)
(*                     engine had received since its reset and the digest  *)
(*                     the generator held                                  *)
(*   safe    package safe, over generator 1 as its source:                 *)
(*             call    the last call of Bytes: the width asked for, the    *)
(*                     uint8 the routine received, the source before and   *)
(*                     after the call, and what came of it                 *)
(*             made    whether New(source, bits) has returned a randchan,  *)
(*                     request and bits its width as asked and as held     *)
(*             closeCalled  whether Close() has been called                *)
(*             closed  whether the channel has been closed                 *)
(*             sent    the values sent on the channel, in order            *)
(*             recv    per consumer, where it stands: "idle", "receiving"  *)
(*                     (blocked in a receive on Channel()), "got" (it      *)
(*                     received a value) or "closed" (it saw the channel   *)
(*                     closed), the value it received and that value's     *)
(*                     position in sent                                    *)
(*   dedup   cmd/dedup: the ContentIndex cas (index, delete), the files    *)
(*           by path (whether each exists, and its bytes), whether the     *)
(*           directory ./saved exists, the signatures sent to the output,  *)
(*           the number of files walked and the last call of addToIndex    *)
(***************************************************************************)
VARIABLES state, chunks, uses, last, gens, safe, dedup

vars == <<state, chunks, uses, last, gens, safe, dedup>>

(***************************************************************************)
(* Inputs.  The bytes a caller writes are consecutive pieces of one byte   *)
(* stream, so that the messages passed to Write since a reset always       *)
(* concatenate to a prefix of the stream.                                  *)
(***************************************************************************)
\* the most Write calls between two resets
MaxWrites == 2
\* the most bytes written between two resets
MaxTotal == 130
\* the most Hash() calls on the engine
MaxUses == 2
\* the lengths of the messages passed to Write
ChunkLens == {0, 1, 3, 55, 64, 65}

StreamByte(p) == (p * 151 + 7) % 256
\* the n bytes of the stream from position from (0-based)
Chunk(from, n) == [i \in 1..n |-> StreamByte(from + i - 1)]

RECURSIVE Sum(_)
Sum(lens) == IF lens = <<>> THEN 0 ELSE Head(lens) + Sum(Tail(lens))

\* The strings of Test_Hashing.
LazyDog ==
    <<84, 104, 101, 32, 113, 117, 105, 99, 107, 32, 98, 114, 111, 119, 110, 32,
      102, 111, 120, 32, 106, 117, 109, 112, 115, 32, 111, 118, 101, 114, 32, 116,
      104, 101, 32, 108, 97, 122, 121, 32, 100, 111, 103>>
LazyCog ==
    <<84, 104, 101, 32, 113, 117, 105, 99, 107, 32, 98, 114, 111, 119, 110, 32,
      102, 111, 120, 32, 106, 117, 109, 112, 115, 32, 111, 118, 101, 114, 32, 116,
      104, 101, 32, 108, 97, 122, 121, 32, 99, 111, 103>>
HelloWorld ==
    <<72, 101, 108, 108, 111, 32, 87, 111, 114, 108, 100, 33>>

NoCall ==
    [op |-> "none", message |-> <<>>, n |-> 0, err |-> "nil", digest |-> <<>>,
     before |-> New, parts |-> <<>>]

Gens == {1, 2}

NoGen ==
    [pc |-> "none", ctor |-> "", args |-> <<>>, ring |-> NewShaRing(TRUE, New),
     seed |-> <<>>, writes |-> 0, fed |-> <<>>, out |-> <<>>, reads |-> <<>>,
     hashes |-> <<>>]

NoGens == [g \in Gens |-> NoGen]

\* the most consumers receiving from one channel
MaxConsumers == 3
Consumers == 1..MaxConsumers

NoBytesCall ==
    [op |-> "none", request |-> 0, bits |-> 0, panic |-> FALSE, result |-> <<>>,
     made |-> 0, words |-> <<>>, stores |-> <<>>, before |-> NewShaRing(TRUE, New),
     after |-> NewShaRing(TRUE, New)]

NoSafe ==
    [call |-> NoBytesCall, made |-> FALSE, request |-> 0, bits |-> 0,
     closeCalled |-> FALSE, closed |-> FALSE, sent |-> <<>>,
     recv |-> [c \in Consumers |-> [pc |-> "idle", value |-> <<>>, index |-> 0]]]

\* dedup before main has run
NoDedup ==
    [cas |-> [index |-> {}, delete |-> FALSE], files |-> <<>>, savedDir |-> FALSE,
     output |-> <<>>, walked |-> 0,
     call |-> [op |-> "none", path |-> [dir |-> "", name |-> ""], data |-> <<>>,
               existed |-> FALSE, err |-> "nil", before |-> <<>>]]

(***************************************************************************)
(* The engine: Write, Hash and Reset called on one hasher.                 *)
(***************************************************************************)
Init ==
    /\ state = New
    /\ chunks = <<>>
    /\ uses = 0
    /\ last = NoCall
    /\ gens = NoGens
    /\ safe = NoSafe
    /\ dedup = NoDedup

WriteCall(n) ==
    /\ Len(chunks) < MaxWrites
    /\ Sum(chunks) + n <= MaxTotal
    /\ LET message == Chunk(Sum(chunks), n)
           w == Write(state, message)
       IN  /\ state' = w.state
           /\ last' = [op |-> "Write", message |-> message, n |-> w.n, err |-> w.err,
                       digest |-> <<>>, before |-> state, parts |-> chunks]
    /\ chunks' = Append(chunks, n)
    /\ UNCHANGED <<uses, gens, safe, dedup>>

HashCall ==
    /\ uses < MaxUses
    /\ LET h == Hash(state)
       IN  /\ state' = h.state
           /\ last' = [op |-> "Hash", message |-> Chunk(0, Sum(chunks)), n |-> 0,
                       err |-> "nil", digest |-> h.digest, before |-> state,
                       parts |-> chunks]
    /\ chunks' = <<>>
    /\ uses' = uses + 1
    /\ UNCHANGED <<gens, safe, dedup>>

ResetCall ==
    /\ state' = Reset(state)
    /\ last' = [op |-> "Reset", message |-> <<>>, n |-> 0, err |-> "nil",
                digest |-> <<>>, before |-> state, parts |-> chunks]
    /\ chunks' = <<>>
    /\ UNCHANGED <<uses, gens, safe, dedup>>

Next ==
    \/ \E n \in ChunkLens : WriteCall(n)
    \/ HashCall
    \/ ResetCall

Spec == Init /\ [][Next]_vars

(***************************************************************************)
(* HashBytes and HashString: the input is drawn first, then one of the two *)
(* is called on it.                                                        *)
(***************************************************************************)
\* the longest input drawn from the stream
MaxInput == 130

Inputs == {Chunk(0, n) : n \in 0..MaxInput} \cup {LazyDog, LazyCog, HelloWorld}

InitHashBytes ==
    /\ state = New
    /\ chunks = <<>>
    /\ uses = 0
    /\ last \in {[NoCall EXCEPT !.op = "input", !.message = m] : m \in Inputs}
    /\ gens = NoGens
    /\ safe = NoSafe
    /\ dedup = NoDedup

HashBytesCall ==
    /\ last.op = "input"
    /\ LET r == HashBytes(last.message)
       IN  last' = [last EXCEPT !.op = "HashBytes", !.digest = r.digest, !.err = r.err]
    /\ UNCHANGED <<state, chunks, uses, gens, safe, dedup>>

HashStringCall ==
    /\ last.op = "input"
    /\ LET r == HashString(last.message)
       IN  last' = [last EXCEPT !.op = "HashString", !.digest = r.digest, !.err = r.err]
    /\ UNCHANGED <<state, chunks, uses, gens, safe, dedup>>

NextHashBytes == HashBytesCall \/ HashStringCall

SpecHashBytes == InitHashBytes /\ [][NextHashBytes]_vars

(***************************************************************************)
(* The generators.  A caller makes a hasher, writes seed bytes to it and   *)
(* passes it to New (or passes nil), or calls NewSourceSeeded; then it     *)
(* draws with Uint64().                                                    *)
(***************************************************************************)
\* the most Write calls that seed an engine
MaxSeedWrites == 2
\* the most Uint64() calls on a generator
MaxDraws == 4
\* the most Uint64() calls on each of two generators side by side
MaxPairDraws == 2
\* the most extra seed components passed to NewSourceSeeded
MaxMore == 3
\* the lengths of the messages that seed an engine
SeedLens == {1, 64, 65}
\* the uint64 seed components: 0x0000000000000001 and 0x0123456789ABCDEF
SeedValues == {<<ZERO32, <<0, 1>>>>, <<<<\H0123, \H4567>>, <<\H89AB, \HCDEF>>>>}

SeedLists(k) == UNION {[1..n -> SeedValues] : n \in 0..k}

InitRing ==
    /\ state = New
    /\ chunks = <<>>
    /\ uses = 0
    /\ last = NoCall
    /\ gens = NoGens
    /\ safe = NoSafe
    /\ dedup = NoDedup

\* the caller's sha1.New()
EngineNew(g) ==
    /\ gens[g].pc = "none"
    /\ gens' = [gens EXCEPT ![g].pc = "engine", ![g].ring.rng = New]
    /\ UNCHANGED <<state, chunks, uses, last, safe, dedup>>

\* the caller's Write of the next n bytes of the stream to the engine
SeedWrite(g, n) ==
    /\ gens[g].pc = "engine"
    /\ gens[g].writes < MaxSeedWrites
    /\ LET message == Chunk(Len(gens[g].seed), n)
       IN  gens' = [gens EXCEPT ![g].ring.rng = Write(gens[g].ring.rng, message).state,
                                ![g].seed = gens[g].seed \o message,
                                ![g].fed = gens[g].fed \o message,
                                ![g].writes = gens[g].writes + 1]
    /\ UNCHANGED <<state, chunks, uses, last, safe, dedup>>

\* New(source), with the engine the caller seeded or with nil
NewCall(g) ==
    /\ gens[g].pc \in {"none", "engine"}
    /\ gens' = [gens EXCEPT ![g].pc = "ready", ![g].ctor = "New",
                            ![g].ring = NewShaRing(gens[g].pc = "none", gens[g].ring.rng)]
    /\ UNCHANGED <<state, chunks, uses, last, safe, dedup>>

NewSourceSeededCall(g, seed, more) ==
    /\ gens[g].pc = "none"
    /\ LET r == NewSourceSeeded(seed, more)
       IN  gens' = [gens EXCEPT ![g].pc = IF r.panic THEN "panic" ELSE "ready",
                                ![g].ctor = "NewSourceSeeded",
                                ![g].args = <<seed>> \o more,
                                ![g].ring = r.ring,
                                ![g].seed = r.written,
                                ![g].fed = r.written,
                                ![g].writes = IF r.panic THEN 0 ELSE 1]
    /\ UNCHANGED <<state, chunks, uses, last, safe, dedup>>

\* Uint64() on generator g, which has been called fewer than max times
Uint64Call(g, max) ==
    /\ gens[g].pc = "ready"
    /\ Len(gens[g].out) < max
    /\ \E r \in {Uint64(gens[g].ring)} : \E d \in {Len(gens[g].hashes)} :
           gens' = [gens EXCEPT
                      ![g].pc = IF r.panic THEN "panic" ELSE "ready",
                      ![g].ring = r.ring,
                      ![g].out = IF r.panic THEN gens[g].out
                                 ELSE Append(gens[g].out, r.next),
                      ![g].reads = IF r.panic THEN gens[g].reads
                                   ELSE Append(gens[g].reads,
                                               {<<d, i>> : i \in r.old}
                                                 \cup {<<d + 1, i>> : i \in r.new}),
                      ![g].fed = IF r.hashed THEN <<>> ELSE gens[g].fed,
                      ![g].hashes = IF r.hashed
                                    THEN Append(gens[g].hashes,
                                                [fed |-> gens[g].fed,
                                                 prev |-> gens[g].ring.digest])
                                    ELSE gens[g].hashes]
    /\ UNCHANGED <<state, chunks, uses, last, safe, dedup>>

\* One generator.
NextRing ==
    \/ EngineNew(1)
    \/ \E n \in SeedLens : SeedWrite(1, n)
    \/ NewCall(1)
    \/ \E seed \in SeedValues : \E more \in SeedLists(MaxMore) :
          NewSourceSeededCall(1, seed, more)
    \/ Uint64Call(1, MaxDraws)

SpecRing == InitRing /\ [][NextRing]_vars

\* Two generators, each made by New from an engine of its own.
NextRingPair ==
    \E g \in Gens :
        \/ EngineNew(g)
        \/ \E n \in SeedLens : SeedWrite(g, n)
        \/ NewCall(g)
        \/ Uint64Call(g, MaxPairDraws)

SpecRingPair == InitRing /\ [][NextRingPair]_vars

(***************************************************************************)
(* Bytes called on the extended source of generator 1, made by New, after  *)
(* any number of Uint64() calls.  A call that panics ends the caller.      *)
(***************************************************************************)
InitBytes ==
    /\ state = New
    /\ chunks = <<>>
    /\ uses = 0
    /\ last = NoCall
    /\ gens = NoGens
    /\ safe = NoSafe
    /\ dedup = NoDedup

\* source.Bytes(bits)
BytesCall(n) ==
    /\ gens[1].pc = "ready"
    /\ \E r \in {Bytes(gens[1].ring, ToUint8(n))} :
          /\ safe' = [safe EXCEPT !.call =
                        [op |-> "Bytes", request |-> n, bits |-> ToUint8(n),
                         panic |-> r.panic, result |-> r.result, made |-> r.made,
                         words |-> r.words, stores |-> r.stores,
                         before |-> gens[1].ring, after |-> r.source]]
          /\ gens' = [gens EXCEPT ![1].pc = IF r.panic THEN "panic" ELSE "ready",
                                  ![1].ring = r.source,
                                  ![1].out = gens[1].out \o r.words]
    /\ UNCHANGED <<state, chunks, uses, last, dedup>>

NextBytes ==
    \/ EngineNew(1)
    \/ NewCall(1)
    \/ Uint64Call(1, MaxPairDraws)
    \/ \E n \in 0..MaxUint8 : BytesCall(n)

SpecBytes == InitBytes /\ [][NextBytes]_vars

(***************************************************************************)
(* The channel of package safe.  New(source, bits) makes the channel and   *)
(* calls start(), consumers receive from Channel(), and the owner calls    *)
(* Close().  start() and Close() have empty bodies: the package holds no   *)
(* statement that sends on the channel and none that closes it, so no step *)
(* completes a receive.                                                    *)
(***************************************************************************)
\* the bit widths asked of New
Requests == {1, 8, 64, 255, 256, 289, 1337}

InitSafe ==
    /\ state = New
    /\ chunks = <<>>
    /\ uses = 0
    /\ last = NoCall
    /\ gens = NoGens
    /\ safe = NoSafe
    /\ dedup = NoDedup

\* New(source, bits) with the extended source of generator 1: the width is
\* passed as a uint8; start() does nothing.
SafeNew(n) ==
    /\ gens[1].pc = "ready"
    /\ ~safe.made
    /\ safe' = [safe EXCEPT !.made = TRUE, !.request = n, !.bits = ToUint8(n)]
    /\ UNCHANGED <<state, chunks, uses, last, gens, dedup>>

\* consumer c starts a receive on Channel(); the channel is unbuffered
Receive(c) ==
    /\ safe.made
    /\ safe.recv[c].pc = "idle"
    /\ safe' = [safe EXCEPT !.recv[c].pc = "receiving"]
    /\ UNCHANGED <<state, chunks, uses, last, gens, dedup>>

\* Close(): its body is empty, the channel stays open
CloseCall ==
    /\ safe.made
    /\ ~safe.closeCalled
    /\ safe' = [safe EXCEPT !.closeCalled = TRUE]
    /\ UNCHANGED <<state, chunks, uses, last, gens, dedup>>

NextSafe ==
    \/ NewCall(1)
    \/ \E n \in Requests : SafeNew(n)
    \/ \E c \in Consumers : Receive(c)
    \/ CloseCall

SpecSafe == InitSafe /\ [][NextSafe]_vars

\* The consumers are goroutines, which the runtime schedules fairly; whether
\* and when the owner calls New and Close is up to the owner.
SpecSafeFair ==
    InitSafe /\ [][NextSafe]_vars /\ \A c \in Consumers : WF_vars(Receive(c))

(***************************************************************************)
(* The length words of Hash().  A length (uint64) is drawn first, then     *)
(* the two words Hash() stores for it are computed.                        *)
(***************************************************************************)
\* lengths are drawn below 2^MaxLengthBits + 2^MaxLengthBits
MaxLengthBits == 61

\* 2^k as a uint64 (0 <= k < 64)
Pow2U64(k) ==
    LET limb(i) == IF k \div 16 = 4 - i THEN Pow2(k % 16) ELSE 0
    IN  << <<limb(1), limb(2)>>, <<limb(3), limb(4)>> >>
\* 2^k - 1 as a uint64 (0 <= k < 64)
Ones64(k) ==
    LET limb(i) == IF k \div 16 > 4 - i THEN HALF - 1
                   ELSE IF k \div 16 = 4 - i THEN Pow2(k % 16) - 1 ELSE 0
    IN  << <<limb(1), limb(2)>>, <<limb(3), limb(4)>> >>

Lengths ==
    {Add64(Pow2U64(k), Pow2U64(j)) : k \in 0..(MaxLengthBits - 1), j \in 0..(MaxLengthBits - 1)}
      \cup {Ones64(k) : k \in 0..MaxLengthBits}

InitLength ==
    /\ state = New
    /\ chunks = <<>>
    /\ uses = 0
    /\ last \in {[op |-> "length", length |-> L, words |-> <<>>] : L \in Lengths}
    /\ gens = NoGens
    /\ safe = NoSafe
    /\ dedup = NoDedup

\* Hash(), its two stores of the length
LengthWordsCall ==
    /\ last.op = "length"
    /\ last' = [last EXCEPT !.op = "lengthWords",
                            !.words = <<LengthHigh(last.length), LengthLow(last.length)>>]
    /\ UNCHANGED <<state, chunks, uses, gens, safe, dedup>>

NextLength == LengthWordsCall

SpecLength == InitLength /\ [][NextLength]_vars

(***************************************************************************)
(* The 1 bit of Hash().  An engine that holds fewer than 64 bytes is drawn *)
(* first, then write1bit marks its block as Hash() does.                   *)
(***************************************************************************)
\* the contents of the block are drawn from this many places of the stream
MaxContents == 3

\* messages that leave len bytes in the block: stretches of the stream, and
\* len bytes with every bit set
Contents(len) ==
    {Chunk(from, len) : from \in 0..MaxContents} \cup {[i \in 1..len |-> 255]}

InitBit ==
    /\ state \in {Write(New, message).state :
                    message \in UNION {Contents(len) : len \in 0..(BLOCK_BYTES - 1)}}
    /\ chunks = <<>>
    /\ uses = 0
    /\ last = NoCall
    /\ gens = NoGens
    /\ safe = NoSafe
    /\ dedup = NoDedup

\* Hash(), its call of write1bit
Write1bitCall ==
    /\ last.op = "none"
    /\ last' = [NoCall EXCEPT !.op = "write1bit", !.before = state]
    /\ state' = [state EXCEPT !.block = write1bit(state.block, state.length % BLOCK_BYTES)]
    /\ UNCHANGED <<chunks, uses, gens, safe, dedup>>

NextBit == Write1bitCall

SpecBit == InitBit /\ [][NextBit]_vars

(***************************************************************************)
(* The message schedule of mixBits.  A block is drawn first, then the      *)
(* schedule is expanded from it.                                           *)
(***************************************************************************)
\* blocks are drawn from this many places of the stream
MaxBlocks == 20

\* the block whose only set bit is bit b (0 the lowest) of word w
UnitBlock(w, b) ==
    [i \in 1..BLOCK_INTS |->
        IF i # w THEN ZERO32
        ELSE IF b < 16 THEN <<0, Pow2(b)>> ELSE <<Pow2(b - 16), 0>>]

\* The blocks with a single bit set, the block without any, the block with
\* every bit set and blocks of the stream.  Every step of the schedule is
\* XOR and rotation, so the schedule of a block is the XOR of the schedules
\* of the single bits set in it.
Blocks ==
    {UnitBlock(w, b) : w \in 1..BLOCK_INTS, b \in 0..31}
      \cup {ClearBlock, [i \in 1..BLOCK_INTS |-> <<HALF - 1, HALF - 1>>]}
      \cup {RefBlock(Chunk(from, BLOCK_BYTES), 0) : from \in 0..MaxBlocks}

InitSchedule ==
    /\ state = New
    /\ chunks = <<>>
    /\ uses = 0
    /\ last \in {[op |-> "block", block |-> b, scratch |-> <<>>] : b \in Blocks}
    /\ gens = NoGens
    /\ safe = NoSafe
    /\ dedup = NoDedup

\* mixBits, up to the end of the message schedule
ScheduleCall ==
    /\ last.op = "block"
    /\ last' = [last EXCEPT !.op = "schedule", !.scratch = Schedule(last.block)]
    /\ UNCHANGED <<state, chunks, uses, gens, safe, dedup>>

NextSchedule == ScheduleCall

SpecSchedule == InitSchedule /\ [][NextSchedule]_vars

(***************************************************************************)
(* Write called with the chunks of a message shorter than one block.       *)
(***************************************************************************)
\* the most chunks a message is split into
MaxSplitWrites == 4
\* the lengths of the chunks
SplitLens == {1, 2, 3, 4, 5, 17, 46}

\* Write of the next n bytes of the stream, the message staying shorter than
\* a block
SplitWrite(n) ==
    /\ Len(chunks) < MaxSplitWrites
    /\ Sum(chunks) + n < BLOCK_BYTES
    /\ LET message == Chunk(Sum(chunks), n)
           w == Write(state, message)
       IN  /\ state' = w.state
           /\ last' = [op |-> "Write", message |-> message, n |-> w.n, err |-> w.err,
                       digest |-> <<>>, before |-> state, parts |-> chunks]
    /\ chunks' = Append(chunks, n)
    /\ UNCHANGED <<uses, gens, safe, dedup>>

NextSplit == \E n \in SplitLens : SplitWrite(n)

SpecSplit == Init /\ [][NextSplit]_vars

(***************************************************************************)
(* cmd/dedup: main walks the input tree and calls addToIndex on each file. *)
(***************************************************************************)
\* the files of the input tree, in the lexical order filepath.WalkDir visits
\* them: a directory "a", two files of the starting directory, a
\* directory "z"
Walk ==
    <<[dir |-> "a", name |-> "x"], [dir |-> "a", name |-> "y"],
      [dir |-> "", name |-> "m"], [dir |-> "", name |-> "n"],
      [dir |-> "z", name |-> "x"]>>

\* where a file can be: in the input tree, or saved under ./saved
Paths ==
    {Walk[i] : i \in 1..Len(Walk)}
      \cup {[dir |-> "saved", name |-> Walk[i].name] : i \in 1..Len(Walk)}

InitDedup ==
    /\ state = New
    /\ chunks = <<>>
    /\ uses = 0
    /\ last = NoCall
    /\ gens = NoGens
    /\ safe = NoSafe
    /\ dedup \in
         {[NoDedup EXCEPT
             !.cas = [index |-> {}, delete |-> delete],
             !.savedDir = savedDir,
             !.files = [p \in Paths |->
                          IF p.dir = "saved" THEN [exists |-> FALSE, data |-> <<>>]
                          ELSE [exists |-> TRUE, data |-> data[p]]]] :
          delete \in BOOLEAN, savedDir \in BOOLEAN,
          \* what each file holds: one of two contents
          data \in [{Walk[i] : i \in 1..Len(Walk)} -> {Chunk(0, 1), Chunk(1, 2)}]}

\* the walk's next call of cas.addToIndex(path)
AddToIndexCall ==
    /\ dedup.walked < Len(Walk)
    /\ \E r \in {addToIndex(dedup.cas, dedup.files, dedup.savedDir,
                            Walk[dedup.walked + 1])} :
          dedup' = [dedup EXCEPT
                      !.cas = r.index,
                      !.files = r.files,
                      !.output = dedup.output \o r.sent,
                      !.walked = dedup.walked + 1,
                      !.call = [op |-> "addToIndex", path |-> Walk[dedup.walked + 1],
                                data |-> dedup.files[Walk[dedup.walked + 1]].data,
                                existed |-> r.existed, err |-> r.err,
                                before |-> dedup.files]]
    /\ UNCHANGED <<state, chunks, uses, last, gens, safe>>

NextDedup == AddToIndexCall

SpecDedup == InitDedup /\ [][NextDedup]_vars

(***************************************************************************)
(* Claims about the engine.                                                *)
(***************************************************************************)
\* C1: for every input, HashBytes and HashString return a nil error and the
\* 20 bytes of the standard SHA-1 digest of the input; the empty input and the
\* two "lazy dog" / "lazy cog" sentences give the digests the claim quotes.
C1_HashBytesIsSHA1 ==
    last.op \in {"HashBytes", "HashString"} =>
        /\ last.err = "nil"
        /\ Len(last.digest) = DIGEST_BYTES
        /\ last.digest = RefSHA1(last.message)
        /\ last.message = <<>> => last.digest = EmptyDigest
        /\ last.message = LazyDog => last.digest = LazyDogDigest
        /\ last.message = LazyCog => last.digest = LazyCogDigest
        /\ last.message = HelloWorld => last.digest = HelloWorldDigest

\* C1's case: HashBytes has returned for a 120-byte input, which fills one
\* block and leaves 56 bytes, too many for the length to fit beside them.
C1_Witness ==
    /\ last.op = "HashBytes"
    /\ Len(last.message) = 120
    /\ last.digest = RefSHA1(last.message)

\* C2: writing a message in consecutive chunks, one Write call per chunk, and
\* then calling Hash() returns the digest of a single Write of the whole
\* message followed by Hash().
C2_ChunkedWritesHashAsOne ==
    last.op = "Hash" => last.digest = HashBytes(last.message).digest

\* The engine after the Write calls of the given lengths, from position pos of
\* the stream.
RECURSIVE AfterWrites(_, _, _)
AfterWrites(st, lens, pos) ==
    IF lens = <<>> THEN st
    ELSE AfterWrites(Write(st, Chunk(pos, Head(lens))).state, Tail(lens),
                     pos + Head(lens))

\* The five initial constants, each in its slot.
InitialChainValue ==
    << <<\H6745, \H2301>>, <<\HEFCD, \HAB89>>, <<\H98BA, \HDCFE>>,
       <<\H1032, \H5476>>, <<\HC3D2, \HE1F0>> >>

IsNewEngine(st) ==
    /\ st.length = 0
    /\ \A i \in 1..BLOCK_INTS : st.block[i] = ZERO32
    /\ st.chainValue = InitialChainValue

\* C3: after Hash() returns, whatever Write calls came before it, the engine
\* is in the state of a newly constructed one; and a Hash() on the engine
\* used again returns the digest the same Write calls give on a fresh engine.
C3_HashLeavesNewEngine ==
    last.op = "Hash" =>
        /\ IsNewEngine(state)
        /\ uses >= 2 => last.digest = Hash(AfterWrites(New, last.parts, 0)).digest

\* C3's case: the second Hash() on the engine, after two Write calls that
\* left mixed blocks and a partly filled block behind.
C3_Witness ==
    /\ last.op = "Hash"
    /\ uses = 2
    /\ Len(last.parts) = 2
    /\ last.before.length > BLOCK_BYTES
    /\ last.before.length % BLOCK_BYTES # 0

\* C4: Reset(), in any engine state, sets length to 0, zeroes the 16 block
\* words and writes the five initial constants to chain-value slots 0..4.
C4_ResetRestoresInitialState ==
    last.op = "Reset" =>
        /\ state.length = 0
        /\ \A i \in 1..BLOCK_INTS : state.block[i] = ZERO32
        /\ state.chainValue[1] = <<\H6745, \H2301>>
        /\ state.chainValue[2] = <<\HEFCD, \HAB89>>
        /\ state.chainValue[3] = <<\H98BA, \HDCFE>>
        /\ state.chainValue[4] = <<\H1032, \H5476>>
        /\ state.chainValue[5] = <<\HC3D2, \HE1F0>>

\* C4's case: Reset() called on an engine with a mixed block behind it and a
\* partly filled block, so length, block and all five chain-value slots differ
\* from their initial values.
C4_Witness ==
    /\ last.op = "Reset"
    /\ last.before.length > BLOCK_BYTES
    /\ last.before.block # ClearBlock
    /\ \A i \in 1..DIGEST_INTS : last.before.chainValue[i] # InitialChainValue[i]

\* C5: Write returns (len(message), nil) for every engine state and every
\* message, the empty one included.
C5_WriteReturnsLenAndNil ==
    last.op = "Write" =>
        /\ last.n = Len(last.message)
        /\ last.err = "nil"

\* C5's case: a Write that starts inside a block and goes past its end.
C5_Witness ==
    /\ last.op = "Write"
    /\ last.before.length % BLOCK_BYTES # 0
    /\ (last.before.length % BLOCK_BYTES) + Len(last.message) > BLOCK_BYTES
    /\ last.n = Len(last.message)

(***************************************************************************)
(* Claims about the generators.                                            *)
(***************************************************************************)
\* C6: two generators built from engines that received the same seed bytes
\* return the same value at every position of their Uint64() sequences.
C6_SameSeedSameSequence ==
    (/\ gens[1].pc = "ready"
     /\ gens[2].pc = "ready"
     /\ gens[1].seed = gens[2].seed) =>
        \A n \in 1..Len(gens[1].out) :
            n <= Len(gens[2].out) => gens[1].out[n] = gens[2].out[n]

\* C7: NewSourceSeeded(0x0000000000000001) completes normally, and the first
\* Uint64() of its generator returns the big-endian uint64 of bytes [0:8] of
\* the SHA-1 digest of the seed's 8-byte big-endian encoding.
C7_SeededFirstDraw ==
    (gens[1].ctor = "NewSourceSeeded" /\ gens[1].args = << <<ZERO32, <<0, 1>>>> >>) =>
        /\ gens[1].pc = "ready"
        /\ Len(gens[1].out) >= 1 =>
              gens[1].out[1] =
                  BigEndianUint64(RefSHA1(PutUint64(<<ZERO32, <<0, 1>>>>)))

\* C8: every byte of every digest a generator computes is part of exactly
\* one returned value: no byte is returned in two calls, and every byte of a
\* digest has been returned by the time the next digest is computed.
C8_DigestBytesOnce ==
    LET reads == gens[1].reads
        digests == Len(gens[1].hashes)
    IN  /\ \A i \in 1..Len(reads) : \A j \in 1..Len(reads) :
              i < j => reads[i] \cap reads[j] = {}
        /\ \A d \in 1..(digests - 1) : \A b \in 0..(DIGEST_BYTES - 1) :
              \E i \in 1..Len(reads) : <<d, b>> \in reads[i]

\* whether the byte sequence part occurs in whole, consecutively
Contains(whole, part) ==
    \E i \in 0..(Len(whole) - Len(part)) : SubSeq(whole, i + 1, i + Len(part)) = part

\* C9: each time Uint64() computes a digest after the first, the bytes of the
\* previous digest have been written to the engine since its last reset; and
\* the generator never invokes Hash() on an engine that has received no bytes
\* since its reset.
C9_DigestsAreChained ==
    \A k \in 1..Len(gens[1].hashes) :
        /\ gens[1].hashes[k].fed # <<>>
        /\ k > 1 => Contains(gens[1].hashes[k].fed, gens[1].hashes[k].prev)

RECURSIVE Encoded(_)
\* the 8-byte big-endian encodings of the uint64 values, in order
Encoded(values) ==
    IF values = <<>> THEN <<>> ELSE PutUint64(Head(values)) \o Encoded(Tail(values))

\* C10: NewSourceSeeded(seed, more...) with k extra components writes exactly
\* the 8 * (1 + k) bytes of the big-endian encodings of seed and more, in
\* order, to a fresh engine and returns a generator with offset 0 and no
\* digest.
C10_SeededWritesEncodings ==
    gens[1].ctor = "NewSourceSeeded" =>
        /\ gens[1].pc = "ready"
        /\ gens[1].seed = Encoded(gens[1].args)
        /\ Len(gens[1].seed) = 8 * Len(gens[1].args)
        /\ gens[1].out = <<>> =>
              /\ gens[1].ring.offset = 0
              /\ gens[1].ring.digest = NilDigest
              /\ gens[1].hashes = <<>>

(***************************************************************************)
(* Claims about package safe.                                              *)
(***************************************************************************)
\* ceil(n / d)
CeilDiv(n, d) == (n + d - 1) \div d

\* byte k (0 is the most significant) of a uint64
WordByte(word, k) ==
    LET half == word[(k \div 4) + 1][((k % 4) \div 2) + 1]
    IN  IF k % 2 = 0 THEN half \div 256 ELSE half % 256

\* C11: for every bit count n from 1 to 255, Bytes(n) returns normally a
\* slice of exactly ceil(n/8) bytes, and the buffer has that length before
\* any byte is stored into it.
C11_BytesLength ==
    (safe.call.op = "Bytes" /\ safe.call.request \in 1..255) =>
        /\ ~safe.call.panic
        /\ Len(safe.call.result) = CeilDiv(safe.call.request, 8)
        /\ safe.call.made = CeilDiv(safe.call.request, 8)

\* C12: Bytes(0) returns an empty byte sequence, calls the source's Uint64()
\* not once and leaves the source as it was.
C12_BytesZeroDrawsNothing ==
    (safe.call.op = "Bytes" /\ safe.call.request = 0) =>
        /\ ~safe.call.panic
        /\ safe.call.result = <<>>
        /\ safe.call.words = <<>>
        /\ safe.call.after = safe.call.before

\* C12's case: Bytes(0) on a source that has already been drawn from, so that
\* it holds a digest a further draw would replace.
C12_Witness ==
    /\ safe.call.op = "Bytes"
    /\ safe.call.request = 0
    /\ safe.call.before.digest # NilDigest
    /\ safe.call.after = safe.call.before
    /\ safe.call.words = <<>>

\* C13: Bytes(n) fills its output big-endian: for n >= 8 byte 0 is the most
\* significant 8 bits of the first word drawn, and each following byte (of
\* the first eight) holds the next lower 8 bits of that word.
C13_BytesBigEndian ==
    (safe.call.op = "Bytes" /\ safe.call.request \in 8..255) =>
        /\ ~safe.call.panic
        /\ safe.call.words # <<>>
        /\ \A k \in 0..7 :
              8 * (k + 1) <= safe.call.request =>
                  /\ k < Len(safe.call.result)
                  /\ safe.call.result[k + 1] = WordByte(safe.call.words[1], k)

\* C14: for n in 1..255 every byte of Bytes(n) before the last carries a full
\* 8 bits of the drawn word, and when n is not a multiple of 8 the last byte
\* is the next 8-bit segment of the drawn word masked to its low n mod 8
\* bits.
C14_BytesLastByteMasked ==
    (safe.call.op = "Bytes" /\ safe.call.request \in 1..255) =>
        LET n == safe.call.request
            count == CeilDiv(n, 8)
        IN  /\ ~safe.call.panic
            /\ Len(safe.call.result) = count
            /\ \A k \in 0..(count - 2) :
                  (k \div 8) < Len(safe.call.words) /\
                  safe.call.result[k + 1] = WordByte(safe.call.words[(k \div 8) + 1], k % 8)
            /\ n % 8 # 0 =>
                  /\ ((count - 1) \div 8) < Len(safe.call.words)
                  /\ safe.call.result[count] =
                        WordByte(safe.call.words[((count - 1) \div 8) + 1],
                                 (count - 1) % 8) % Pow2(n % 8)

\* C15: Bytes(n) calls the source's Uint64() exactly ceil(n/64) times, and for
\* n > 64 bytes 8i..8i+7 of the output come from the i-th word drawn.
C15_BytesDrawsPerWord ==
    safe.call.op = "Bytes" =>
        LET n == safe.call.request
        IN  /\ Len(safe.call.words) = CeilDiv(n, 64)
            /\ n > 64 =>
                  /\ ~safe.call.panic
                  /\ \A k \in 0..(Len(safe.call.result) - 1) :
                        8 * (k + 1) <= n =>
                            safe.call.result[k + 1] =
                                WordByte(safe.call.words[(k \div 8) + 1], k % 8)

\* C16: the width accepted by New (and by Bytes) holds every width asked
\* for, 256, 289 and 1337 included, as that exact width: it is never reduced
\* modulo 256 or otherwise truncated.
C16_WidthIsExact ==
    safe.made => safe.bits = safe.request

\* the values sent on the channel
Sent == {safe.sent[i] : i \in 1..Len(safe.sent)}

\* C17: once New has returned and as long as Close() is not called, a
\* consumer blocked in a receive on Channel() eventually receives a value a
\* production loop has sent.
C17_ReceiveGetsValue ==
    \A c \in Consumers :
        [](  (safe.made /\ ~safe.closeCalled /\ safe.recv[c].pc = "receiving")
          => <>(\/ safe.recv[c].pc = "got" /\ safe.recv[c].value \in Sent
                \/ safe.closeCalled))

\* C18: after Close() has been called no further value is sent on the
\* channel, and every receive, pending or issued later, eventually completes
\* by observing the closed channel.
C18_CloseReleasesReceivers ==
    /\ [][safe.closeCalled => safe'.sent = safe.sent]_vars
    /\ \A c \in Consumers :
          []((safe.closeCalled /\ safe.recv[c].pc = "receiving")
               => <>(safe.recv[c].pc = "closed"))

BlockBytes(block) ==
    [i \in 1..BLOCK_BYTES |-> PutUint32(block[((i - 1) \div 4) + 1])[((i - 1) % 4) + 1]]

\* the chain value after the blocks have been mixed in, in order
RECURSIVE MixBlocks(_, _)
MixBlocks(st, blocks) ==
    IF blocks = <<>> THEN st.chainValue
    ELSE MixBlocks(mixBits([st EXCEPT !.block = Head(blocks)]), Tail(blocks))

\* C20: Hash() on an engine holding L bytes mixes exactly one final block
\* when L mod 64 <= 55 and exactly two when L mod 64 >= 56; of the two, the
\* block holding the 1 bit is mixed first, and the second is all zero except
\* its last two words, which carry the length in bits.  The digest returned
\* is the chain value after these blocks.
C20_HashFinalBlocks ==
    last.op = "Hash" =>
        LET L == last.before.length
            blocks == HashMixes(last.before)
        IN  /\ L % 64 <= 55 => Len(blocks) = 1
            /\ L % 64 >= 56 =>
                  /\ Len(blocks) = 2
                  /\ BlockBytes(blocks[1])[(L % 64) + 1] = 128
                  /\ \A i \in ((L % 64) + 2)..BLOCK_BYTES : BlockBytes(blocks[1])[i] = 0
                  /\ \A i \in 1..(BLOCK_INTS - 2) : blocks[2][i] = ZERO32
                  /\ blocks[2][BLOCK_INTS - 1] = ZERO32
                  /\ blocks[2][BLOCK_INTS] = ToU32(L * 8)
            /\ last.digest = newDigest(MixBlocks(last.before, blocks))

\* C20's case: Hash() on an engine whose block holds 56 bytes, the fewest
\* that leave no room for the length beside the 1 bit.
C20_Witness ==
    /\ last.op = "Hash"
    /\ last.before.length % 64 = 56
    /\ Len(HashMixes(last.before)) = 2

(***************************************************************************)
(* Claims about the length words.                                          *)
(***************************************************************************)
\* C21: for every length L below 2^61, the two words Hash() stores in
\* block[14] and block[15] satisfy block[14] * 2^32 + block[15] = 8 * L, and
\* neither conversion to uint32 drops a set bit.  For the lengths an engine
\* of the model can hold, they are the words HashPadded stores.  8 * L is
\* computed on the 16-bit limbs d, c, b, a of L (lowest first) with carries.
C21_LengthWords ==
    (last.op = "lengthWords" /\ last.length[1][1] < Pow2(13)) =>
        /\ LET d == last.length[2][2] * 8
               c == last.length[2][1] * 8 + (d \div HALF)
               b == last.length[1][2] * 8 + (c \div HALF)
               a == last.length[1][1] * 8 + (b \div HALF)
           IN  /\ a \div HALF = 0
               /\ last.words[1] = <<a % HALF, b % HALF>>
               /\ last.words[2] = <<c % HALF, d % HALF>>
        /\ Shr64(last.length, 29)[1] = ZERO32
        /\ (last.length[1] = ZERO32 /\ last.length[2][1] = 0) =>
              LET padded == HashPadded([New EXCEPT !.length = last.length[2][2]])
              IN  /\ padded.block[BLOCK_INTS - 1] = last.words[1]
                  /\ padded.block[BLOCK_INTS] = last.words[2]

\* C21's case: a length of 2^60 and more whose low 29 bits are not all zero,
\* so that both words are set and the bit length needs all 64 bits.
C21_Witness ==
    /\ last.op = "lengthWords"
    /\ last.length[1][1] >= Pow2(12)
    /\ last.length[1][1] < Pow2(13)
    /\ last.length[2] # ZERO32
    /\ last.words[1] # ZERO32
    /\ last.words[2] # ZERO32

(***************************************************************************)
(* Claims about the accounting of Write.                                   *)
(***************************************************************************)
\* Byte i (from 1) of the count bytes a block buffer holds: four to a word,
\* most significant first; the bytes of a last, incomplete word are its low
\* bytes, as copyBytes leaves them.
BufferByte(block, count, i) ==
    LET w == (i - 1) \div 4
        j == (i - 1) % 4
        held == IF w < count \div 4 THEN 4 ELSE count % 4
    IN  PutUint32(block[w + 1])[4 - held + j + 1]

\* the first k 64-byte blocks of a message, as words
StreamBlocks(message, k) == [b \in 1..k |-> RefBlock(message, b - 1)]

\* C22: after Write calls that passed n bytes in total to a new engine, the
\* length is n, exactly floor(n/64) blocks have been mixed into the chain
\* value, and the block buffer holds the last n mod 64 bytes in order.
C22_WriteAccounting ==
    last.op = "Write" =>
        LET n == Sum(chunks)
            message == Chunk(0, n)
        IN  /\ state.length = n
            /\ state.chainValue = MixBlocks(New, StreamBlocks(message, n \div 64))
            /\ \A i \in 1..(n % 64) :
                  BufferByte(state.block, n % 64, i) = message[64 * (n \div 64) + i]

(***************************************************************************)
(* Claims about the 1 bit.                                                 *)
(***************************************************************************)
\* C23: Hash() places the 1 bit immediately after the last message byte: for
\* every L mod 64 in 0..63 and every content of the partial word, after
\* write1bit the block byte at position L mod 64 is 0x80, the message bytes
\* before it (those of the same word among them) have their values at their
\* big-endian positions, and every later byte of the block is zero.  The
\* marked block is the one Hash() goes on with.
C23_OneBitAfterLastByte ==
    last.op = "write1bit" =>
        LET L == last.before.length
            held == L % 64
            bytes == BlockBytes(state.block)
        IN  /\ bytes[held + 1] = 128
            /\ \A i \in 1..held :
                  bytes[i] = BufferByte(last.before.block, held, i)
            /\ \A i \in (held + 2)..BLOCK_BYTES : bytes[i] = 0
            /\ \A w \in 1..(BLOCK_INTS - 2) : HashMixes(last.before)[1][w] = state.block[w]

\* C23's case: 63 bytes are held, so the last word holds three message bytes
\* with a bit set in each, and the 1 bit goes into the block's last byte.
C23_Witness ==
    /\ last.op = "write1bit"
    /\ last.before.length = 63
    /\ \A i \in 61..63 : BufferByte(last.before.block, 63, i) # 0
    /\ BlockBytes(state.block)[64] = 128

(***************************************************************************)
(* Claims about the cursor of the generator.                               *)
(***************************************************************************)
\* C24: in every state reached by Uint64() calls on a generator made by New,
\* the offset is one of 0, 4, 8, 12, 16, every call has matched a case of the
\* switch (it returned bytes of a digest), and no call has reached a case
\* that reads the stored digest while no digest was stored (which panics).
C24_OffsetMatchesACase ==
    gens[1].ctor = "New" =>
        /\ gens[1].ring.offset \in {0, 4, 8, 12, 16}
        /\ gens[1].pc # "panic"
        /\ \A i \in 1..Len(gens[1].reads) : gens[1].reads[i] # {}
        /\ (gens[1].ring.offset # 0) => gens[1].ring.digest # NilDigest

\* C24's case: a generator made by New has answered three Uint64() calls.
C24_Witness ==
    /\ gens[1].ctor = "New"
    /\ gens[1].pc = "ready"
    /\ Len(gens[1].out) >= 3
    /\ Len(gens[1].reads) = Len(gens[1].out)
    /\ gens[1].ring.digest # NilDigest

\* C25: after the first digest, Hash() is invoked only during a draw that
\* returns the last 4 bytes of the current digest as its high 32 bits joined
\* with the first 4 bytes of the new digest as its low 32 bits; a draw that
\* reads a full 64-bit word of the digest computes no new digest and advances
\* the cursor by 8 bytes.
C25_HashOnlyWhenStraddling ==
    [][\A n \in {Len(gens[1].out)} :
         (gens[1].pc = "ready" /\ gens[1].ring.digest # NilDigest
            /\ Len(gens'[1].out) = n + 1) =>
           /\ (Len(gens'[1].hashes) > Len(gens[1].hashes)) =>
                 gens'[1].out[n + 1] =
                     <<BigEndianUint32(SubSeq(gens[1].ring.digest, 17, 20)),
                       BigEndianUint32(gens'[1].ring.digest)>>
           /\ (Len(gens'[1].hashes) = Len(gens[1].hashes)) =>
                 gens'[1].ring.offset = (gens[1].ring.offset + 8) % 20]_vars

(***************************************************************************)
(* Claims about the calls of mixBits.                                      *)
(***************************************************************************)
\* C26: along every sequence of Write, Hash and Reset calls, each time
\* mixBits is invoked the engine's length is a multiple of 64, so the check
\* "block must be completely filled before processing" never panics.  The
\* engines are the ones the call mixed: the last of them gives the chain
\* value the call leaves (Write) or returns as the digest (Hash).
C26_MixBitsOnFullBlocks ==
    LET mixes == IF last.op = "Write" THEN WriteMixes(last.before, last.message)
                 ELSE IF last.op = "Hash" THEN HashMixStates(last.before)
                 ELSE <<>>
    IN  /\ \A i \in 1..Len(mixes) :
              /\ mixes[i].length % 64 = 0
              /\ ~mixBitsPanics(mixes[i])
        /\ (last.op = "Write" /\ Len(mixes) > 0) =>
              state.chainValue = mixBits(mixes[Len(mixes)]).chainValue
        /\ last.op = "Hash" =>
              last.digest = newDigest(mixBits(mixes[Len(mixes)]).chainValue)

\* C26's case: a Write that starts inside a block and crosses into the next
\* has called mixBits.
C26_Witness ==
    /\ last.op = "Write"
    /\ last.before.length % 64 # 0
    /\ Len(WriteMixes(last.before, last.message)) >= 1

(***************************************************************************)
(* Claims about the message schedule.                                      *)
(***************************************************************************)
\* C27: for every 16-word block, the 80-word schedule mixBits builds, with
\* the ROTL1 recurrence for t in 16..31 and then
\* W[t] = ROTL2(W[t-6] ^ W[t-16] ^ W[t-28] ^ W[t-32]) for t in 32..79, equals
\* word for word the standard schedule
\* W[t] = ROTL1(W[t-3] ^ W[t-8] ^ W[t-14] ^ W[t-16]) for t in 16..79.
C27_ScheduleIsStandard ==
    last.op = "schedule" =>
        /\ Len(last.scratch) = SCRATCH_INTS
        /\ \A t \in 1..BLOCK_INTS : last.scratch[t] = last.block[t]
        /\ \A t \in 16..79 :
              last.scratch[t + 1] =
                  rotateL(Xor32(Xor32(last.scratch[t - 3 + 1], last.scratch[t - 8 + 1]),
                                Xor32(last.scratch[t - 14 + 1], last.scratch[t - 16 + 1])), 1)
        /\ last.scratch = RefSchedule(last.block)

\* C27's case: the schedule of a block of the stream has been built, and its
\* words from index 32 onwards, the ones the aligned recurrence gives, differ
\* from one another.
C27_Witness ==
    /\ last.op = "schedule"
    /\ last.block = RefBlock(Chunk(0, BLOCK_BYTES), 0)
    /\ Len(last.scratch) = SCRATCH_INTS
    /\ last.scratch[33] # last.scratch[80]
    /\ last.scratch[33] # ZERO32

(***************************************************************************)
(* Claims about chunked writes within one block.                           *)
(***************************************************************************)
\* C28: for every message M shorter than 64 bytes and every split of M into
\* consecutive chunks, those not aligned to 4 bytes among them, the block
\* words and the length after the chunked Write calls equal those after the
\* single call Write(M).
C28_ChunkedWritesSameBlock ==
    (last.op = "Write" /\ Sum(chunks) < 64) =>
        LET M == Chunk(0, Sum(chunks))
            single == Write(New, M).state
        IN  /\ state.block = single.block
            /\ state.length = single.length
            /\ state.length = Len(M)

\* C28's case: a message written in four chunks, the first three of which
\* end inside a word.
C28_Witness ==
    /\ last.op = "Write"
    /\ Len(chunks) = 4
    /\ Sum(chunks) < 64
    /\ \A k \in 1..3 : Sum(SubSeq(chunks, 1, k)) % 4 # 0
    /\ state.block = Write(New, Chunk(0, Sum(chunks))).state.block

(***************************************************************************)
(* Claims about dedup.                                                     *)
(***************************************************************************)
\* C29: with delete enabled, whenever addToIndex(path) processes a file
\* whose content signature is already in the index, the file at path is
\* removed from the input tree while one copy of the content is kept; with
\* delete disabled, addToIndex renames and removes no file.
C29_DeleteRemovesDuplicate ==
    dedup.call.op = "addToIndex" =>
        /\ (dedup.cas.delete /\ dedup.call.existed) =>
              /\ ~dedup.files[dedup.call.path].exists
              /\ \E p \in Paths :
                    dedup.files[p].exists /\ dedup.files[p].data = dedup.call.data
        /\ ~dedup.cas.delete => dedup.files = dedup.call.before

====
